---- MODULE Spec2Model ----
(***************************************************************************)
(* Blackjack round state machine of game.py (class Game): deck, hands,     *)
(* phase, the main loop run() = handle_events; update; draw, and the pure  *)
(* scorer score_hand.                                                      *)
(*                                                                         *)
(* A card is the tuple <<rank, suit>> of make_deck.  The four suit glyphs  *)
(* of the source are written as the ASCII names "clubs", "diamonds",       *)
(* "hearts", "spades"; no code compares or orders suits.                   *)
(* Python lists are sequences; list.pop() removes the LAST element, so the *)
(* top of the deck is deck[Len(deck)].                                     *)
(***************************************************************************)
EXTENDS Integers, Sequences, FiniteSets, TLC

\* ------------------------------------------------------------------ bounds
\* Longest batch of input events pygame.event.get() returns in one frame.
MaxEvents == 1
\* random.shuffle is a nondeterministic choice of a permutation of the 52
\* cards.  The model draws it from the family of deal orders
\*   t-th card dealt = Base[(offset + t * stride) mod 52],  t = 0..51,
\* Base being make_deck's order or its rank-major rearrangement, with
\* stride in 1..MaxStride coprime to 52 and the offset (a cut of the base
\* order) one of 0, 7, ..., 7 * MaxOffset.
MaxStride == 9
MaxOffset == 1
\* Longest hand given to score_hand in SpecScore.
MaxHandLen == 3

\* ------------------------------------------------------- program constants
NumRanks == 13
DeckSize == 4 * NumRanks
DealerStandsAt == 17
Blackjack == 21
AcePromotion == 10
FaceValue == 10

VARIABLES
    deck,          \* self.deck: sequence of cards, top = last element
    player_hand,   \* self.player_hand
    dealer_hand,   \* self.dealer_hand
    round_over,    \* self.round_over
    winner_text,   \* self.winner_text
    game_state,    \* self.game_state
    running,       \* self.running
    pc,            \* position of run(): which call of the loop body is next
    events,        \* the batch pygame.event.get() returned in this iteration
    frame,         \* history of this loop iteration: phase changes, deck pops
    screen,        \* what draw() rendered last
    hand,          \* SpecScore: the argument of score_hand
    score          \* SpecScore: the value score_hand returned

vars == <<deck, player_hand, dealer_hand, round_over, winner_text, game_state,
          running, pc, events, frame, screen, hand, score>>

gameVars == <<deck, player_hand, dealer_hand, round_over, winner_text,
              game_state>>

\* ---------------------------------------------------------------- the deck
Suits == <<"clubs", "diamonds", "hearts", "spades">>

\* make_deck with the ranks taken from range(0, 13)
make_deck_ranks_from_0 ==
    [i \in 1..(Len(Suits) * NumRanks) |->
        <<(i - 1) % NumRanks, Suits[((i - 1) \div NumRanks) + 1]>>]

\* make_deck: for suit in suits: for rank in range(1, 14): append((rank, suit))
make_deck ==
    [i \in 1..(Len(Suits) * NumRanks) |->
        <<((i - 1) % NumRanks) + 1, Suits[((i - 1) \div NumRanks) + 1]>>]

RECURSIVE Gcd(_, _)
Gcd(a, b) == IF b = 0 THEN a ELSE Gcd(b, a % b)

Strides == {s \in 1..MaxStride : Gcd(s, DeckSize) = 1}
Offsets == {7 * j : j \in 0..MaxOffset}

\* Index (0-based) into make_deck's list of the k-th card of a base order:
\* mode 0 keeps make_deck's suit-major order, mode 1 is rank-major
\* (the four aces, the four twos, ...).
BaseIndex(mode, k) ==
    IF mode = 0 THEN k
    ELSE (k % Len(Suits)) * NumRanks + (k \div Len(Suits))

\* The permutation of list positions for one (mode, stride, offset):
\* position i of the shuffled list holds the card dealt at t = 52 - i.
PermOf(mode, stride, offset) ==
    [i \in 1..DeckSize |->
        BaseIndex(mode, (offset + (DeckSize - i) * stride) % DeckSize) + 1]

\* The permutations random.shuffle may produce, within the bounds.
Perms ==
    {PermOf(m, s, o) : m \in {0, 1}, s \in Strides, o \in Offsets}

\* random.shuffle(self.deck) with outcome p: the list rearranged in place.
shuffle(d, p) == [i \in 1..Len(d) |-> d[p[i]]]

\* ------------------------------------------------------------ score_hand
\* for card in hand: the running <<total, aces>> after cards i..Len(h)
RECURSIVE SumCards(_, _, _, _)
SumCards(h, i, total, aces) ==
    IF i > Len(h) THEN <<total, aces>>
    ELSE LET rank == h[i][1] IN
         IF rank > 10 THEN SumCards(h, i + 1, total + FaceValue, aces)
         ELSE IF rank = 1 THEN SumCards(h, i + 1, total + 1, aces + 1)
         ELSE SumCards(h, i + 1, total + rank, aces)

\* while aces > 0: if total + 10 <= 21: total += 10; aces -= 1
RECURSIVE PromoteAces(_, _)
PromoteAces(total, aces) ==
    IF aces > 0
    THEN PromoteAces(IF total + AcePromotion <= Blackjack
                     THEN total + AcePromotion ELSE total,
                     aces - 1)
    ELSE total

\* score_hand with the promotion test written total + 10 < 21
score_hand_strict(h) ==
    LET s == SumCards(h, 1, 0, 0) IN
    IF s[2] > 0 /\ s[1] + AcePromotion < Blackjack
    THEN s[1] + AcePromotion ELSE s[1]

\* score_hand promoting once whether or not the hand holds an ace
score_hand_promotes_without_ace(h) ==
    LET s == SumCards(h, 1, 0, 0) IN
    IF s[1] + AcePromotion <= Blackjack THEN s[1] + AcePromotion ELSE s[1]

score_hand(h) ==
    LET s == SumCards(h, 1, 0, 0) IN PromoteAces(s[1], s[2])

\* --------------------------------------------------------- the Game object
\* The mutable fields of self that the handlers read and write, as a record;
\* raised is TRUE once list.pop() raised IndexError on an empty deck (the
\* exception is caught nowhere, so it ends run()).
Game ==
    [deck |-> deck, player_hand |-> player_hand, dealer_hand |-> dealer_hand,
     round_over |-> round_over, winner_text |-> winner_text,
     game_state |-> game_state, running |-> running, frame |-> frame,
     raised |-> FALSE]

NoFrame == [phase_changes |-> 0, cards_drawn |-> 0]

\* self.deck.pop(): the card returned, and self after the call
Top(g) == g.deck[Len(g.deck)]
Popped(g) ==
    [g EXCEPT !.deck = SubSeq(g.deck, 1, Len(g.deck) - 1),
              !.frame.cards_drawn = @ + 1]

\* self.game_state = s
SetState(g, s) ==
    [g EXCEPT !.game_state = s,
              !.frame.phase_changes = @ + (IF g.game_state # s THEN 1 ELSE 0)]

\* new_round without line 81 (the outcome text is not cleared)
new_round_keeps_text(g, p) ==
    LET g0 == [g EXCEPT !.deck = shuffle(make_deck, p)]
        g1 == Popped(g0)
        g2 == Popped(g1)
        g3 == Popped(g2)
        g4 == Popped(g3)
        g5 == [g4 EXCEPT !.player_hand = <<Top(g0), Top(g1)>>,
                         !.dealer_hand = <<Top(g2), Top(g3)>>,
                         !.round_over = FALSE]
    IN  SetState(g5, "PLAYER_TURN")

\* new_round, random.shuffle producing the permutation p
new_round(g, p) ==
    LET g0 == [g EXCEPT !.deck = shuffle(make_deck, p)] IN
    IF Len(g0.deck) < 4
    THEN [g0 EXCEPT !.raised = TRUE]
    ELSE LET g1 == Popped(g0)
             g2 == Popped(g1)
             g3 == Popped(g2)
             g4 == Popped(g3)
             g5 == [g4 EXCEPT !.player_hand = <<Top(g0), Top(g1)>>,
                              !.dealer_hand = <<Top(g2), Top(g3)>>,
                              !.round_over = FALSE,
                              !.winner_text = ""]
         IN  SetState(g5, "PLAYER_TURN")

\* hit reading the top card with deck[-1] instead of deck.pop()
hit_keeps_top(g) ==
    LET g1 == [g EXCEPT !.player_hand = Append(@, Top(g))]
        player_total == score_hand(g1.player_hand)
    IN  IF player_total > Blackjack
        THEN SetState([g1 EXCEPT !.round_over = TRUE,
                                 !.winner_text = "You busted! Dealer wins."],
                      "DONE")
        ELSE IF player_total = Blackjack
        THEN SetState([g1 EXCEPT !.round_over = TRUE,
                                 !.winner_text = "You hit 21! You win."],
                      "DONE")
        ELSE g1

\* hit with the bust test written player_total >= 21
hit_busts_at_21(g) ==
    LET g1 == [Popped(g) EXCEPT !.player_hand = Append(@, Top(g))]
        player_total == score_hand(g1.player_hand)
    IN  IF player_total >= Blackjack
        THEN SetState([g1 EXCEPT !.round_over = TRUE,
                                 !.winner_text = "You busted! Dealer wins."],
                      "DONE")
        ELSE g1

\* hit without the elif of lines 172-175 (no instant win on 21)
hit_no_instant_win(g) ==
    LET g1 == [Popped(g) EXCEPT !.player_hand = Append(@, Top(g))]
        player_total == score_hand(g1.player_hand)
    IN  IF player_total > Blackjack
        THEN SetState([g1 EXCEPT !.round_over = TRUE,
                                 !.winner_text = "You busted! Dealer wins."],
                      "DONE")
        ELSE g1

\* hit putting the drawn card in front with insert(0, ...) instead of append
hit_prepends(g) ==
    LET g1 == [Popped(g) EXCEPT !.player_hand = <<Top(g)>> \o @]
        player_total == score_hand(g1.player_hand)
    IN  IF player_total > Blackjack
        THEN SetState([g1 EXCEPT !.round_over = TRUE,
                                 !.winner_text = "You busted! Dealer wins."],
                      "DONE")
        ELSE IF player_total = Blackjack
        THEN SetState([g1 EXCEPT !.round_over = TRUE,
                                 !.winner_text = "You hit 21! You win."],
                      "DONE")
        ELSE g1

\* handle_events, lines 163-176: the Hit button in PLAYER_TURN
hit(g) ==
    IF Len(g.deck) = 0
    THEN [g EXCEPT !.raised = TRUE]
    ELSE LET g1 == [Popped(g) EXCEPT !.player_hand = Append(@, Top(g))]
             player_total == score_hand(g1.player_hand)
         IN  IF player_total > Blackjack
             THEN SetState([g1 EXCEPT !.round_over = TRUE,
                                      !.winner_text = "You busted! Dealer wins."],
                           "DONE")
             ELSE IF player_total = Blackjack
             THEN SetState([g1 EXCEPT !.round_over = TRUE,
                                      !.winner_text = "You hit 21! You win."],
                           "DONE")
             ELSE g1

\* stand that also marks the round over
stand_ends_round(g) ==
    [SetState(g, "DEALER_TURN") EXCEPT !.round_over = TRUE]

\* handle_events, lines 178-179: the Stand button in PLAYER_TURN
stand(g) == SetState(g, "DEALER_TURN")

\* The input events of the model.  A left click is told apart by the one
\* button whose rect holds the position (the three rects are disjoint:
\* x in 100..200, 300..400, 500..600); "click_none" is a left click on no
\* button, or a click of another mouse button.
Events == {"QUIT", "click_hit", "click_stand", "click_restart", "click_none"}

\* Button.is_clicked for the click event ev
is_clicked(btn, ev) == ev = btn

\* hit_or_stand without the test of game_state (line 160)
hit_or_stand_any_state(g, ev) ==
    IF ~g.round_over
    THEN IF is_clicked("click_hit", ev) THEN hit(g)
         ELSE IF is_clicked("click_stand", ev) THEN stand(g)
         ELSE g
    ELSE g

\* handle_events, lines 158-179: the Hit/Stand part of one click
hit_or_stand(g, ev) ==
    IF ~g.round_over
    THEN IF g.game_state = "PLAYER_TURN"
         THEN IF is_clicked("click_hit", ev) THEN hit(g)
              ELSE IF is_clicked("click_stand", ev) THEN stand(g)
              ELSE g
         ELSE g
    ELSE g

\* handle_events, lines 147-179: the body of the for loop for one event,
\* p being the shuffle outcome should the click restart the round
on_event(g, ev, p) ==
    IF ev = "QUIT"
    THEN [g EXCEPT !.running = FALSE]
    ELSE LET g1 == IF is_clicked("click_restart", ev) THEN new_round(g, p)
                   ELSE g
         IN  IF g1.raised THEN g1 ELSE hit_or_stand(g1, ev)

\* handle_events: the for loop over the batch evs from event i on; ps gives
\* the shuffle outcome for each position holding a Restart click
RECURSIVE for_events(_, _, _, _)
for_events(g, evs, ps, i) ==
    IF i > Len(evs) \/ g.raised THEN g
    ELSE for_events(
            on_event(g, evs[i],
                     IF evs[i] = "click_restart" THEN ps[i] ELSE <<>>),
            evs, ps, i + 1)

\* determine_winner with the two score comparisons exchanged
determine_winner_swapped(g) ==
    LET player_score == score_hand(g.player_hand)
        dealer_score == score_hand(g.dealer_hand)
    IN  IF dealer_score > Blackjack
        THEN [g EXCEPT !.winner_text = "Dealer busted! You win."]
        ELSE IF player_score < dealer_score
        THEN [g EXCEPT !.winner_text = "You win!"]
        ELSE IF player_score > dealer_score
        THEN [g EXCEPT !.winner_text = "Dealer wins."]
        ELSE [g EXCEPT !.winner_text = "It's a tie!"]

\* determine_winner adding its text to winner_text with += instead of =
determine_winner_appends(g) ==
    LET player_score == score_hand(g.player_hand)
        dealer_score == score_hand(g.dealer_hand)
    IN  IF dealer_score > Blackjack
        THEN [g EXCEPT !.winner_text = @ \o "Dealer busted! You win."]
        ELSE IF player_score > dealer_score
        THEN [g EXCEPT !.winner_text = @ \o "You win!"]
        ELSE IF player_score < dealer_score
        THEN [g EXCEPT !.winner_text = @ \o "Dealer wins."]
        ELSE [g EXCEPT !.winner_text = @ \o "It's a tie!"]

\* determine_winner
determine_winner(g) ==
    LET player_score == score_hand(g.player_hand)
        dealer_score == score_hand(g.dealer_hand)
    IN  IF dealer_score > Blackjack
        THEN [g EXCEPT !.winner_text = "Dealer busted! You win."]
        ELSE IF player_score > dealer_score
        THEN [g EXCEPT !.winner_text = "You win!"]
        ELSE IF player_score < dealer_score
        THEN [g EXCEPT !.winner_text = "Dealer wins."]
        ELSE [g EXCEPT !.winner_text = "It's a tie!"]

\* dealer_draws with the test written dealer_score <= 17
dealer_draws_on_17(dealer_score) == dealer_score <= DealerStandsAt

\* dealer_draws that never lets the dealer stand
dealer_draws_always(dealer_score) == dealer_score >= 0

\* update, line 184: the dealer draws on this score
dealer_draws(dealer_score) == dealer_score < DealerStandsAt

\* update drawing in a loop (two cards in one call) while the dealer must draw
update_draws_twice(g) ==
    IF g.game_state = "DEALER_TURN"
    THEN IF dealer_draws(score_hand(g.dealer_hand))
         THEN LET g1 == [Popped(g) EXCEPT !.dealer_hand = Append(@, Top(g))] IN
              IF dealer_draws(score_hand(g1.dealer_hand))
              THEN [Popped(g1) EXCEPT !.dealer_hand = Append(@, Top(g1))]
              ELSE g1
         ELSE determine_winner(
                [SetState(g, "DONE") EXCEPT !.round_over = TRUE])
    ELSE g

\* update comparing game_state with a misspelt state name
update_wrong_state_name(g) ==
    IF g.game_state = "DEALER_TURNS"
    THEN IF dealer_draws(score_hand(g.dealer_hand))
         THEN IF Len(g.deck) = 0
              THEN [g EXCEPT !.raised = TRUE]
              ELSE [Popped(g) EXCEPT !.dealer_hand = Append(@, Top(g))]
         ELSE determine_winner(
                [SetState(g, "DONE") EXCEPT !.round_over = TRUE])
    ELSE g

\* update without the test of game_state (line 182)
update_any_state(g) ==
    IF dealer_draws(score_hand(g.dealer_hand))
    THEN IF Len(g.deck) = 0
         THEN [g EXCEPT !.raised = TRUE]
         ELSE [Popped(g) EXCEPT !.dealer_hand = Append(@, Top(g))]
    ELSE determine_winner(
           [SetState(g, "DONE") EXCEPT !.round_over = TRUE])

\* update without line 188 (round_over is not set)
update_forgets_round_over(g) ==
    IF g.game_state = "DEALER_TURN"
    THEN IF dealer_draws(score_hand(g.dealer_hand))
         THEN IF Len(g.deck) = 0
              THEN [g EXCEPT !.raised = TRUE]
              ELSE [Popped(g) EXCEPT !.dealer_hand = Append(@, Top(g))]
         ELSE determine_winner(SetState(g, "DONE"))
    ELSE g

\* update
update(g) ==
    IF g.game_state = "DEALER_TURN"
    THEN IF dealer_draws(score_hand(g.dealer_hand))
         THEN IF Len(g.deck) = 0
              THEN [g EXCEPT !.raised = TRUE]
              ELSE [Popped(g) EXCEPT !.dealer_hand = Append(@, Top(g))]
         ELSE determine_winner(
                [SetState(g, "DONE") EXCEPT !.round_over = TRUE])
    ELSE g

\* ------------------------------------------------------------------- draw
\* card_to_string
card_to_string(card) ==
    LET rank == card[1]
        suit == card[2]
        rank_str == IF rank = 1 THEN "A"
                    ELSE IF rank = 11 THEN "J"
                    ELSE IF rank = 12 THEN "Q"
                    ELSE IF rank = 13 THEN "K"
                    ELSE ToString(rank)
    IN  rank_str \o suit

\* ", ".join(strs)
RECURSIVE join(_)
join(strs) ==
    IF Len(strs) = 0 THEN ""
    ELSE IF Len(strs) = 1 THEN strs[1]
    ELSE strs[1] \o ", " \o join(Tail(strs))

\* shown_dealer_cards without the hiding branch (every card revealed)
shown_dealer_cards_all(g) ==
    [i \in 1..Len(g.dealer_hand) |-> card_to_string(g.dealer_hand[i])]

\* draw, lines 221-229: the dealer cards as shown, and the score display
shown_dealer_cards(g) ==
    IF g.game_state = "PLAYER_TURN" /\ ~g.round_over
    THEN <<card_to_string(g.dealer_hand[1])>>
         \o (IF Len(g.dealer_hand) > 1
             THEN [i \in 1..(Len(g.dealer_hand) - 1) |-> "??"]
             ELSE <<>>)
    ELSE [i \in 1..Len(g.dealer_hand) |-> card_to_string(g.dealer_hand[i])]

dealer_score_display(g) ==
    IF g.game_state = "PLAYER_TURN" /\ ~g.round_over
    THEN ""
    ELSE "(score: " \o ToString(score_hand(g.dealer_hand)) \o ")"

\* draw, lines 239-246: the status lines under the hands
status_lines(g) ==
    IF g.round_over
    THEN <<g.winner_text, "Click 'Restart' to play again.">>
    ELSE IF g.game_state = "PLAYER_TURN"
    THEN <<"Your turn! Click 'Hit' or 'Stand'.">>
    ELSE IF g.game_state = "DEALER_TURN"
    THEN <<"Dealer's turn... (please wait)">>
    ELSE <<>>

\* draw: the texts blitted to the screen (title and buttons never change)
draw(g) ==
    [player_text |->
        "Your Hand: "
        \o join([i \in 1..Len(g.player_hand) |-> card_to_string(g.player_hand[i])])
        \o " (score: " \o ToString(score_hand(g.player_hand)) \o ")",
     dealer_text |->
        "Dealer Hand: " \o join(shown_dealer_cards(g)) \o " "
        \o dealer_score_display(g),
     status |-> status_lines(g)]

\* Nothing is on the screen before the first draw.
BlankScreen == [player_text |-> "", dealer_text |-> "", status |-> <<>>]

\* ---------------------------------------------------------------- actions
\* The batches pygame.event.get() may return in one frame.
EventSeqs == UNION {[1..n -> Events] : n \in 0..MaxEvents}

Restarts(evs) == {i \in 1..Len(evs) : evs[i] = "click_restart"}

\* The fields of self after a handler returned g
SetGame(g) ==
    /\ deck' = g.deck
    /\ player_hand' = g.player_hand
    /\ dealer_hand' = g.dealer_hand
    /\ round_over' = g.round_over
    /\ winner_text' = g.winner_text
    /\ game_state' = g.game_state
    /\ running' = g.running
    /\ frame' = g.frame

\* Game.__init__: new_round on a fresh object, then run() is entered
Init ==
    /\ \E p \in Perms :
         LET g == new_round(
                    [deck |-> <<>>, player_hand |-> <<>>, dealer_hand |-> <<>>,
                     round_over |-> FALSE, winner_text |-> "",
                     game_state |-> "PLAYER_TURN", running |-> TRUE,
                     frame |-> NoFrame, raised |-> FALSE], p)
         IN  /\ deck = g.deck
             /\ player_hand = g.player_hand
             /\ dealer_hand = g.dealer_hand
             /\ round_over = g.round_over
             /\ winner_text = g.winner_text
             /\ game_state = g.game_state
    /\ running = TRUE
    /\ pc = "handle_events"
    /\ events = <<>>
    /\ frame = NoFrame
    /\ screen = BlankScreen
    /\ hand = <<>>
    /\ score = 0

\* run, line 139: self.handle_events() on a batch evs out of `batches`
HandleEventsOf(batches) ==
    /\ pc = "handle_events"
    /\ \E evs \in batches :
         \E ps \in [Restarts(evs) -> Perms] :
            LET g == for_events(Game, evs, ps, 1) IN
            /\ SetGame(g)
            /\ events' = evs
            /\ pc' = IF g.raised THEN "crashed" ELSE "update"
    /\ UNCHANGED <<screen, hand, score>>

HandleEvents == HandleEventsOf(EventSeqs)

\* run, line 140: self.update()
Update ==
    /\ pc = "update"
    /\ LET g == update(Game) IN
         /\ SetGame(g)
         /\ pc' = IF g.raised THEN "crashed" ELSE "draw"
    /\ UNCHANGED <<events, screen, hand, score>>

\* run, line 141: self.draw(), then the while test of the next iteration
Draw ==
    /\ pc = "draw"
    /\ screen' = draw(Game)
    /\ pc' = IF running THEN "handle_events" ELSE "quit"
    /\ events' = <<>>
    /\ frame' = NoFrame
    /\ UNCHANGED <<gameVars, running, hand, score>>

\* run, line 142: self.quit() once the loop has ended
Quit ==
    /\ pc = "quit"
    /\ pc' = "exited"
    /\ UNCHANGED <<gameVars, running, events, frame, screen, hand, score>>

Next == HandleEvents \/ Update \/ Draw \/ Quit

Spec == Init /\ [][Next]_vars

\* handle_events in a run whose user never clicks Restart
HandleEventsNoRestart ==
    HandleEventsOf({evs \in EventSeqs : Restarts(evs) = {}})

LiveNext == HandleEventsNoRestart \/ Update \/ Draw \/ Quit

\* run's while loop never blocks: handle_events polls without waiting,
\* update and draw return, and clock.tick only delays; so as long as a call
\* of the loop is due it is eventually made.
SpecLive == Init /\ [][LiveNext]_vars /\ WF_vars(LiveNext)

\* ------------------------------------------------ score_hand on its own
\* The hands score_hand is applied to: every sequence of up to MaxHandLen
\* ranks, in every order (the suit, which score_hand ignores, follows the
\* position).
HandOf(rs) ==
    [i \in 1..Len(rs) |-> <<rs[i], Suits[((i - 1) % Len(Suits)) + 1]>>]

ScoreInit ==
    /\ \E n \in 0..MaxHandLen :
         \E rs \in [1..n -> 1..NumRanks] : hand = HandOf(rs)
    /\ score = 0
    /\ pc = "score_hand"
    /\ LET g == new_round(
                  [deck |-> <<>>, player_hand |-> <<>>, dealer_hand |-> <<>>,
                   round_over |-> FALSE, winner_text |-> "",
                   game_state |-> "PLAYER_TURN", running |-> TRUE,
                   frame |-> NoFrame, raised |-> FALSE], PermOf(0, 1, 0))
       IN  /\ deck = g.deck
           /\ player_hand = g.player_hand
           /\ dealer_hand = g.dealer_hand
           /\ round_over = g.round_over
           /\ winner_text = g.winner_text
           /\ game_state = g.game_state
    /\ running = TRUE
    /\ events = <<>>
    /\ frame = NoFrame
    /\ screen = BlankScreen

\* One call score_hand(hand)
ScoreHand ==
    /\ pc = "score_hand"
    /\ score' = score_hand(hand)
    /\ pc' = "returned"
    /\ UNCHANGED <<gameVars, running, events, frame, screen, hand>>

ScoreNext == ScoreHand

SpecScore == ScoreInit /\ [][ScoreNext]_vars

\* -------------------------------------------------------------- properties
\* The 52-card universe: one card for each rank 1..13 and each suit.
Universe == {<<r, Suits[s]>> : r \in 1..13, s \in 1..4}

Range(f) == {f[i] : i \in DOMAIN f}

AllCards == deck \o player_hand \o dealer_hand

\* C1: in every reachable state the remaining deck, the player hand and the
\* dealer hand hold only cards of the 52-card universe, and no card occurs
\* twice across the three collections.
C1_NoCardTwice ==
    /\ Range(AllCards) \subseteq Universe
    /\ Cardinality(Range(AllCards)) = Len(AllCards)

\* C1 witness: a round in which both the player and the dealer have drawn
\* beyond the initial deal.
C1_Witness ==
    /\ Len(player_hand) >= 3
    /\ Len(dealer_hand) >= 3
    /\ pc = "draw"

\* The value of card i of h when the aces at the positions in `eleven`
\* count 11 and every other ace counts 1.
CardValue(h, i, eleven) ==
    IF h[i][1] = 1 THEN (IF i \in eleven THEN 11 ELSE 1)
    ELSE IF h[i][1] >= 11 THEN 10
    ELSE h[i][1]

RECURSIVE SumValues(_, _, _)
SumValues(h, n, eleven) ==
    IF n = 0 THEN 0 ELSE SumValues(h, n - 1, eleven) + CardValue(h, n, eleven)

\* Every total of h obtainable by valuing each ace independently as 1 or 11.
Totals(h) ==
    {SumValues(h, Len(h), eleven) :
        eleven \in SUBSET {i \in 1..Len(h) : h[i][1] = 1}}

SetMax(S) == CHOOSE x \in S : \A y \in S : y <= x
SetMin(S) == CHOOSE x \in S : \A y \in S : x <= y

BestTotal(h) ==
    LET ok == {t \in Totals(h) : t <= 21} IN
    IF ok # {} THEN SetMax(ok) ELSE SetMin(Totals(h))

\* C2: for every hand, score_hand returns the largest total not above 21
\* obtainable by valuing faces as 10 and each ace as 1 or 11, or the
\* smallest total (all aces 1) when every total exceeds 21.
C2_ScoreIsBestTotal ==
    pc = "returned" => score = BestTotal(hand)

\* C2 witness: score_hand returned 21 for ace, ace, nine (one ace promoted).
C2_Witness ==
    /\ pc = "returned"
    /\ Len(hand) = 3
    /\ <<hand[1][1], hand[2][1], hand[3][1]>> = <<1, 1, 9>>
    /\ score = 21

\* The outcome texts of the two Hit endings and of determine_winner.
BustText == "You busted! Dealer wins."
Hit21Text == "You hit 21! You win."
DetermineWinnerTexts ==
    {"Dealer busted! You win.", "You win!", "Dealer wins.", "It's a tie!"}

DeckTop == deck[Len(deck)]
DeckRest == SubSeq(deck, 1, Len(deck) - 1)

\* C3: a Hit click in PLAYER_TURN moves the top card of the deck to the end
\* of the player hand and leaves the dealer hand alone; above 21 the round is
\* DONE with the bust text, at 21 it is DONE with the win text (whatever the
\* dealer holds, the dealer never having drawn), below 21 it stays
\* PLAYER_TURN with no outcome.
C3_HitEffect ==
    [][ /\ ( pc = "handle_events" /\ game_state = "PLAYER_TURN"
             /\ events' = <<"click_hit">> )
           => /\ Len(deck) > 0
              /\ deck' = DeckRest
              /\ player_hand' = Append(player_hand, DeckTop)
              /\ dealer_hand' = dealer_hand
              /\ score_hand(player_hand') > 21
                   => game_state' = "DONE" /\ round_over'
                      /\ winner_text' = BustText
              /\ score_hand(player_hand') = 21
                   => game_state' = "DONE" /\ round_over'
                      /\ winner_text' = Hit21Text
              /\ score_hand(player_hand') < 21
                   => game_state' = "PLAYER_TURN" /\ ~round_over'
                      /\ winner_text' = ""
        /\ winner_text' \in {BustText, Hit21Text} => Len(dealer_hand') = 2
      ]_vars

\* C3 witness: a Hit click brought the player to exactly 21 and ended the
\* round with the win text.
C3_Witness ==
    /\ pc = "update"
    /\ events = <<"click_hit">>
    /\ game_state = "DONE"
    /\ winner_text = Hit21Text
    /\ score_hand(player_hand) = 21

\* C4: one update call in DEALER_TURN either draws one card for the dealer
\* (score below 17; the phase stays DEALER_TURN, no outcome) or draws nothing
\* and ends the round with an outcome of determine_winner (score 17 or more,
\* soft 17 included); the player hand is unchanged either way.
C4_DealerStep ==
    [][ ( pc = "update" /\ game_state = "DEALER_TURN" )
        => /\ player_hand' = player_hand
           /\ IF score_hand(dealer_hand) < 17
              THEN /\ Len(deck) > 0
                   /\ deck' = DeckRest
                   /\ dealer_hand' = Append(dealer_hand, DeckTop)
                   /\ game_state' = "DEALER_TURN"
                   /\ ~round_over'
                   /\ winner_text' = ""
              ELSE /\ deck' = deck
                   /\ dealer_hand' = dealer_hand
                   /\ game_state' = "DONE"
                   /\ round_over'
                   /\ winner_text' \in DetermineWinnerTexts
      ]_vars

\* C4 witness: the dealer stood on a soft 17 (an ace counted 11).
C4_Witness ==
    /\ pc = "draw"
    /\ game_state = "DONE"
    /\ winner_text \in DetermineWinnerTexts
    /\ score_hand(dealer_hand) = 17
    /\ SumValues(dealer_hand, Len(dealer_hand), {}) = 7

\* The outcome the comparison rule gives for the two scores.
ExpectedOutcome(player_score, dealer_score) ==
    IF dealer_score > 21 THEN "Dealer busted! You win."
    ELSE IF player_score > dealer_score THEN "You win!"
    ELSE IF player_score < dealer_score THEN "Dealer wins."
    ELSE "It's a tie!"

\* C5: when update ends the round (the dealer stands), the outcome text is
\* the dealer-bust text if the dealer is above 21, else player wins, dealer
\* wins or tie as the player score is above, below or equal to the dealer's.
C5_Outcome ==
    [][ ( pc = "update" /\ game_state = "DEALER_TURN" /\ game_state' = "DONE" )
        => winner_text' = ExpectedOutcome(BestTotal(player_hand'),
                                          BestTotal(dealer_hand'))
      ]_vars

\* C5 witness: the dealer finished above the player and the dealer won.
C5_Witness ==
    /\ pc = "draw"
    /\ game_state = "DONE"
    /\ winner_text = "Dealer wins."
    /\ Len(dealer_hand) >= 3
    /\ BestTotal(player_hand) < BestTotal(dealer_hand)

\* C6: Hit and Stand clicks in DEALER_TURN or DONE change nothing of the
\* round: deck, hands, phase, round_over and outcome text stay as they were.
C6_ClicksIgnored ==
    [][ ( /\ pc = "handle_events"
          /\ game_state \in {"DEALER_TURN", "DONE"}
          /\ events' # <<>>
          /\ \A i \in 1..Len(events') :
                events'[i] \in {"click_hit", "click_stand"} )
        => UNCHANGED gameVars
      ]_vars

\* C6 witness: a Hit click was handled while the dealer was playing.
C6_Witness ==
    /\ pc = "update"
    /\ events = <<"click_hit">>
    /\ game_state = "DEALER_TURN"
    /\ Len(dealer_hand) >= 3

\* A fresh round: 48 cards left, two cards in each hand, all 52 cards
\* accounted for, PLAYER_TURN, not over, no outcome text.
FreshRound ==
    /\ Len(deck) = 48
    /\ Len(player_hand) = 2
    /\ Len(dealer_hand) = 2
    /\ Range(AllCards) = Universe
    /\ game_state = "PLAYER_TURN"
    /\ ~round_over
    /\ winner_text = ""

\* C7: a Restart click is accepted in every phase and leaves a fresh round
\* (whenever the Restart is the last click handled in the frame).
C7_RestartFresh ==
    [][ ( /\ pc = "handle_events"
          /\ events' # <<>>
          /\ events'[Len(events')] = "click_restart" )
        => FreshRound'
      ]_vars

\* C7 witness: Restart was clicked while the screen showed a finished round
\* decided by the dealer's play, and the round is fresh.
C7_Witness ==
    /\ pc = "update"
    /\ events = <<"click_restart">>
    /\ Len(screen.status) = 2
    /\ screen.status[1] \in DetermineWinnerTexts
    /\ FreshRound

\* C8: no deck.pop() is ever attempted on an empty deck (run() never ends
\* by the IndexError).
C8_DeckNeverExhausted == pc # "crashed"

\* C8 witness: a round in which twelve or more cards have left the deck.
C8_Witness ==
    /\ Len(deck) <= 40
    /\ pc = "draw"

Count(evs, ev) == Cardinality({i \in 1..Len(evs) : evs[i] = ev})

C10_PlayerBelow21 ==
    winner_text \in DetermineWinnerTexts => score_hand(player_hand) < 21

\* C10 (amended): whenever determine_winner has produced the outcome, the
\* player score is at most 21, and it is 21 only for the two cards dealt by
\* new_round (a 21 reached by a Hit has ended the round before).
C10_PlayerNotBustAndHit21Resolved ==
    winner_text \in DetermineWinnerTexts
        => /\ score_hand(player_hand) <= 21
           /\ score_hand(player_hand) = 21 => Len(player_hand) = 2

\* C10 witness: the player stood on a dealt 21 and determine_winner ran.
C10_Witness ==
    /\ winner_text \in DetermineWinnerTexts
    /\ game_state = "DONE"
    /\ Len(player_hand) = 2
    /\ score_hand(player_hand) = 21


\* A snapshot has just been rendered from the present fields of the round.
SnapshotTaken ==
    /\ pc \in {"handle_events", "quit", "exited"}
    /\ screen # BlankScreen

\* The cards h[1..n] written out one after the other, comma separated.
RECURSIVE CardList(_, _)
CardList(h, n) ==
    IF n = 0 THEN ""
    ELSE IF n = 1 THEN card_to_string(h[1])
    ELSE CardList(h, n - 1) \o ", " \o card_to_string(h[n])

\* C11: a snapshot taken in PLAYER_TURN shows the dealer's first card only,
\* the second card as "??" and no dealer score; a snapshot taken in
\* DEALER_TURN or DONE shows every dealer card and the dealer score.
C11_DealerCardHidden ==
    SnapshotTaken =>
        IF game_state = "PLAYER_TURN"
        THEN /\ Len(dealer_hand) = 2
             /\ screen.dealer_text =
                   "Dealer Hand: " \o card_to_string(dealer_hand[1]) \o ", ?? "
        ELSE screen.dealer_text =
                "Dealer Hand: " \o CardList(dealer_hand, Len(dealer_hand))
                \o " (score: " \o ToString(BestTotal(dealer_hand)) \o ")"

\* C11 witness: a snapshot taken in PLAYER_TURN after the player has hit.
C11_Witness ==
    /\ SnapshotTaken
    /\ game_state = "PLAYER_TURN"
    /\ Len(player_hand) >= 3


\* C12: a Stand click in PLAYER_TURN, at any player score, sets the phase to
\* DEALER_TURN and nothing else: deck, hands and the empty outcome text are
\* as before and the round is not over.
C12_StandEffect ==
    [][ ( pc = "handle_events" /\ game_state = "PLAYER_TURN"
          /\ events' = <<"click_stand">> )
        => /\ game_state' = "DEALER_TURN"
           /\ UNCHANGED <<deck, player_hand, dealer_hand, winner_text,
                          round_over>>
           /\ winner_text' = ""
           /\ ~round_over'
      ]_vars

\* C12 witness: a Stand click was handled after the player had hit, the
\* dealer having not yet played.
C12_Witness ==
    /\ pc = "update"
    /\ events = <<"click_stand">>
    /\ game_state = "DEALER_TURN"
    /\ Len(player_hand) >= 3
    /\ Len(dealer_hand) = 2

\* s with its elements in the opposite order
Reverse(s) == [i \in 1..Len(s) |-> s[Len(s) + 1 - i]]

\* The cards that left the deck in the step, in the order they were popped.
PoppedInStep == Reverse(SubSeq(deck, Len(deck') + 1, Len(deck)))

\* The step belongs to the present round: it handles no Restart click.
StepWithinRound == ~(pc = "handle_events" /\ Restarts(events') # {})

\* C13: within a round every step leaves each hand unchanged or appends to
\* its end the cards popped from the top of the deck in that step, one card
\* per Hit click or dealer tick; no hand shrinks or is reordered.
C13_HandsOnlyGrow ==
    [][ StepWithinRound
        => /\ Len(deck') <= Len(deck)
           /\ deck' = SubSeq(deck, 1, Len(deck'))
           /\ \/ /\ player_hand' = player_hand \o PoppedInStep
                 /\ dealer_hand' = dealer_hand
                 /\ Len(PoppedInStep) <= Count(events', "click_hit")
              \/ /\ dealer_hand' = dealer_hand \o PoppedInStep
                 /\ player_hand' = player_hand
                 /\ Len(PoppedInStep) <= 1
      ]_vars

\* C13 witness: the player hand and the dealer hand have both grown and the
\* dealer has just been dealt a card by update.
C13_Witness ==
    /\ pc = "draw"
    /\ frame.cards_drawn = 1
    /\ Len(player_hand) >= 3
    /\ Len(dealer_hand) >= 4


\* The thirteen cards of one suit, ace to king.
SuitRun(suit) == [r \in 1..13 |-> <<r, suit>>]

\* C14: make_deck returns exactly 52 cards in one fixed order (clubs,
\* diamonds, hearts, spades, each from ace to king), every (rank, suit) pair
\* exactly once; the cards of every round are the cards it built.
C14_MakeDeck ==
    /\ Len(make_deck) = 52
    /\ make_deck = SuitRun("clubs") \o SuitRun("diamonds")
                   \o SuitRun("hearts") \o SuitRun("spades")
    /\ Range(make_deck) = Universe
    /\ \A i, j \in 1..Len(make_deck) : make_deck[i] = make_deck[j] => i = j
    /\ Range(AllCards) = Range(make_deck)
    /\ Len(AllCards) = Len(make_deck)

\* C14 witness: new_round has just dealt from a newly built deck on Restart.
C14_Witness ==
    /\ pc = "update"
    /\ events = <<"click_restart">>
    /\ Len(deck) = 48
    /\ Range(AllCards) = Range(make_deck)


\* The ranks of h added up, each rank above 10 counted as 10.
RECURSIVE CappedSum(_)
CappedSum(h) ==
    IF h = <<>> THEN 0
    ELSE (IF Head(h)[1] > 10 THEN 10 ELSE Head(h)[1]) + CappedSum(Tail(h))

HasAce(h) == \E i \in 1..Len(h) : h[i][1] = 1

\* C15: score_hand returns an integer >= 0 for every hand, 0 for the empty
\* hand, and for a hand without an ace exactly the sum of its ranks with
\* each rank above 10 counted as 10.
C15_ScoreBasics ==
    pc = "returned" =>
        /\ score \in Nat
        /\ hand = <<>> => score = 0
        /\ ~HasAce(hand) => score = CappedSum(hand)

\* C15 witness: score_hand returned 25 for ten, ten, five.
C15_Witness ==
    /\ pc = "returned"
    /\ Len(hand) = 3
    /\ <<hand[1][1], hand[2][1], hand[3][1]>> = <<10, 10, 5>>
    /\ score = 25


\* C16: on a finished round a call of determine_winner changes at most the
\* outcome text, a second call returns what the first returned, and when the
\* round was decided by determine_winner a further call changes nothing.
C16_DetermineWinnerIdempotent ==
    game_state = "DONE" =>
        LET once  == determine_winner(Game)
            twice == determine_winner(once)
        IN  /\ twice = once
            /\ once = [Game EXCEPT !.winner_text = once.winner_text]
            /\ winner_text \in DetermineWinnerTexts => once = Game

\* C16 witness: update has ended the round through determine_winner with a
\* win of the player on points.
C16_Witness ==
    /\ pc = "draw"
    /\ game_state = "DONE"
    /\ winner_text = "You win!"
    /\ frame.phase_changes >= 1


\* C17: in a run without Restart clicks, whenever the phase is DEALER_TURN
\* the ticks of the running loop bring it to DONE after finitely many
\* dealer draws (unless a QUIT event stops the loop and with it the ticks).
C17_DealerResolves ==
    (game_state = "DEALER_TURN") ~> (game_state = "DONE" \/ ~running)

\* C17 witness: the dealer's play has ended although one of the dealer's
\* draws did not raise the dealer score.
C17_Witness ==
    /\ game_state = "DONE"
    /\ winner_text \in DetermineWinnerTexts
    /\ \E n \in 2..(Len(dealer_hand) - 1) :
          score_hand(SubSeq(dealer_hand, 1, n + 1))
             <= score_hand(SubSeq(dealer_hand, 1, n))


\* C18: within a round the phase only moves forward: PLAYER_TURN to
\* DEALER_TURN by a Stand click, PLAYER_TURN to DONE by a Hit click reaching
\* 21 or more, DEALER_TURN to DONE by update; and in DONE every update tick
\* and every click but Restart leaves deck, hands, phase, round_over and
\* outcome text unchanged.
C18_PhaseForward ==
    [][ StepWithinRound
        => /\ game_state' # game_state
                => \/ /\ game_state = "PLAYER_TURN"
                      /\ game_state' = "DEALER_TURN"
                      /\ pc = "handle_events"
                      /\ Count(events', "click_stand") > 0
                   \/ /\ game_state = "PLAYER_TURN"
                      /\ game_state' = "DONE"
                      /\ pc = "handle_events"
                      /\ Count(events', "click_hit") > 0
                      /\ BestTotal(player_hand') >= 21
                   \/ /\ game_state = "DEALER_TURN"
                      /\ game_state' = "DONE"
                      /\ pc = "update"
           /\ game_state = "DONE" => UNCHANGED gameVars
      ]_vars

\* C18 witness: a Stand click and the update tick after it have both been
\* handled on a finished round, which is as it was.
C18_Witness ==
    /\ pc = "draw"
    /\ events = <<"click_stand">>
    /\ game_state = "DONE"
    /\ frame = NoFrame

\* C19: round_over is TRUE exactly in DONE, and winner_text is non-empty
\* exactly in DONE.
C19_BookkeepingAgrees ==
    /\ round_over <=> game_state = "DONE"
    /\ winner_text # "" <=> game_state = "DONE"

\* C19 witness: the dealer's play has ended the round: DONE, round_over and
\* an outcome text together.
C19_Witness ==
    /\ pc = "draw"
    /\ game_state = "DONE"
    /\ round_over
    /\ winner_text = "Dealer busted! You win."

====
